---- MODULE Spec2Model ----
(***************************************************************************)
(* Model of dl_ext:                                                        *)
(*   - dl_ext/pytorch_ext/optim.py: OneCycleScheduler (construction,       *)
(*     _format_param, get_lr, annealing_cos) driving an optimizer's        *)
(*     parameter groups;                                                   *)
(*   - dl_ext/vision_ext/datasets/kitti/io/image_info.py: the              *)
(*     _ImageInfoCache singleton and load_image_info.                      *)
(*                                                                         *)
(* Numbers.  Python floats are modelled as exact fixed-point/rational      *)
(* values: learning rates and momenta are integers (LrUnit, MomUnit per    *)
(* 1.0), pct_start, div_factor and the anneal fraction are rationals       *)
(* <<num, den>>, and cos(pi * p) is a rational approximation (Bhaskara I)  *)
(* scaled by CosScale, exact at p = 0, 1/2, 1 and monotone on [0, 1].      *)
(* Rounding errors of IEEE doubles are therefore not in the model.         *)
(***************************************************************************)
EXTENDS Integers, Sequences, FiniteSets, TLC

VARIABLES cfg, groups, self, pc, err, lrs, prev_lrs, prev_momentums, resumes,
          disk, instance, scans, created, proc, call, outcome

schedVars == <<cfg, groups, self, pc, err, lrs, prev_lrs, prev_momentums, resumes>>
cacheVars == <<disk, instance, scans, created, proc, call, outcome>>
vars == <<schedVars, cacheVars>>

-----------------------------------------------------------------------------
(* Bounds of the model *)

MaxGroups == 2
MaxTotalSteps == 8
MaxResumes == 1

-----------------------------------------------------------------------------
(* Fixed-point units *)

CosScale == 10 * 1000
LrUnit == 10 * 1000
MomUnit == 10 * 100

Scalar(v) == [kind |-> "scalar", v |-> v, vs |-> <<>>]
List(vs) == [kind |-> "list", v |-> 0, vs |-> vs]

(* a list of the given length, distinct element per position *)
Ramp(len, first, step) == [i \in 1..len |-> first + step * (i - 1)]

MaxLrChoices ==
    {Scalar(LrUnit \div 10)}
        \cup {List(Ramp(len, LrUnit \div 10, LrUnit \div 10)) : len \in 1..(MaxGroups + 1)}

BaseMomentumChoices ==
    {Scalar((85 * MomUnit) \div 100), Scalar((97 * MomUnit) \div 100)}
        \cup {List(Ramp(len, (80 * MomUnit) \div 100, (5 * MomUnit) \div 100)) : len \in 1..(MaxGroups + 1)}

MaxMomentumChoices ==
    {Scalar((95 * MomUnit) \div 100)}
        \cup {List(Ramp(len, (90 * MomUnit) \div 100, (3 * MomUnit) \div 100)) : len \in 1..(MaxGroups + 1)}

PctStartChoices == {<<1, 4>>, <<3, 10>>, <<1, 2>>}
DivFactorChoices == {<<25, 1>>, <<4, 1>>, <<1, 2>>}

Configs ==
    [is_optimizer : BOOLEAN,
     ngroups : 1..MaxGroups,
     supports_momentum : BOOLEAN,
     max_lr : MaxLrChoices,
     total_steps : 1..MaxTotalSteps,
     pct_start : PctStartChoices,
     div_factor : DivFactorChoices,
     cycle_momentum : BOOLEAN,
     base_momentum : BaseMomentumChoices,
     max_momentum : MaxMomentumChoices]

-----------------------------------------------------------------------------
(* Errors *)

NoError == [kind |-> "none", param |-> "", expected |-> 0, actual |-> 0]
InvalidOptimizer == [kind |-> "InvalidOptimizer", param |-> "", expected |-> 0, actual |-> 0]
OperandTypeError == [kind |-> "TypeError", param |-> "max_lr", expected |-> 0, actual |-> 0]
MomentumUnsupported == [kind |-> "MomentumUnsupported", param |-> "", expected |-> 0, actual |-> 0]
MomentumKeyError == [kind |-> "KeyError", param |-> "momentum", expected |-> 0, actual |-> 0]
InitialLrKeyError == [kind |-> "KeyError", param |-> "initial_lr", expected |-> 0, actual |-> 0]
ParameterCountMismatch(name, expected, actual) ==
    [kind |-> "ParameterCountMismatch", param |-> name, expected |-> expected, actual |-> actual]

-----------------------------------------------------------------------------
(* annealing_cos *)

(* S * cos(pi * n / d) for 0 <= n/d <= 1/2 *)
CosHalf(n, d) == (CosScale * (d * d - 4 * n * n)) \div (d * d + n * n)

(* CosScale * cos(pi * n / d), n/d >= 0, d > 0 *)
CosPi(n, d) ==
    LET m == n % (2 * d)
        r == IF m > d THEN 2 * d - m ELSE m
    IN IF 2 * r <= d THEN CosHalf(r, d) ELSE 0 - CosHalf(d - r, d)

(* variant: start and end exchanged *)
annealing_cos_swapped(start, end, pct) ==
    LET cos_out == CosPi(pct[1], pct[2]) + CosScale
    IN start + ((end - start) * cos_out) \div (2 * CosScale)

annealing_cos(start, end, pct) ==
    LET cos_out == CosPi(pct[1], pct[2]) + CosScale
    IN end + ((start - end) * cos_out) \div (2 * CosScale)

-----------------------------------------------------------------------------
(* OneCycleScheduler *)

NoScheduler ==
    [base_lrs |-> <<>>, max_lrs |-> <<>>,
     step_size_up |-> <<0, 1>>, step_size_down |-> <<0, 1>>,
     total_size |-> 0, step_ratio |-> <<0, 1>>,
     cycle_momentum |-> FALSE,
     base_momentums |-> <<>>, max_momentums |-> <<>>,
     last_epoch |-> 0 - 1]

FormatOk(n, param) == param.kind = "scalar" \/ Len(param.vs) = n

format_param(n, param) ==
    IF param.kind = "list" THEN param.vs ELSE [i \in 1..n |-> param.v]

(* max_lr / div_factor *)
StartLr(c) == (c.max_lr.v * c.div_factor[2]) \div c.div_factor[1]

(* variant: x < self.step_ratio *)
InRampUpStrict(s, e) == e * s.step_ratio[2] < s.step_ratio[1] * s.total_size

(* x <= self.step_ratio, x = last_epoch / total_size *)
InRampUp(s, e) == e * s.step_ratio[2] <= s.step_ratio[1] * s.total_size

(* variant: ramp-down fraction without the step_size_up offset *)
AnnealFractionNoOffset(s, e) ==
    IF InRampUp(s, e)
    THEN <<e * s.step_size_up[2], s.step_size_up[1]>>
    ELSE <<e * s.step_size_down[2], s.step_size_down[1]>>

(* the third argument of annealing_cos, as <<num, den>> *)
AnnealFraction(s, e) ==
    IF InRampUp(s, e)
    THEN <<e * s.step_size_up[2], s.step_size_up[1]>>
    ELSE <<e * s.step_size_up[2] - s.step_size_up[1], s.step_size_down[1]>>

get_lr(s, e) ==
    [i \in 1..Len(s.base_lrs) |->
        IF InRampUp(s, e)
        THEN annealing_cos(s.base_lrs[i], s.max_lrs[i], AnnealFraction(s, e))
        ELSE annealing_cos(s.max_lrs[i], s.base_lrs[i], AnnealFraction(s, e))]

(* variant: momentum annealed in the direction of the learning rate *)
get_momentums_not_inverted(s, e) ==
    [i \in 1..Len(s.base_momentums) |->
        IF InRampUp(s, e)
        THEN annealing_cos(s.base_momentums[i], s.max_momentums[i], AnnealFraction(s, e))
        ELSE annealing_cos(s.max_momentums[i], s.base_momentums[i], AnnealFraction(s, e))]

get_momentums(s, e) ==
    [i \in 1..Len(s.base_momentums) |->
        IF InRampUp(s, e)
        THEN annealing_cos(s.max_momentums[i], s.base_momentums[i], AnnealFraction(s, e))
        ELSE annealing_cos(s.base_momentums[i], s.max_momentums[i], AnnealFraction(s, e))]

(* the optimizer's groups after one evaluation of the policy at step e:  *)
(* get_lr writes the momenta, the base class's step writes the rates     *)
ApplyPolicy(s, gs, e) ==
    LET rates == get_lr(s, e)
        moms == get_momentums(s, e)
    IN [i \in 1..Len(gs) |->
           IF s.cycle_momentum
           THEN [gs[i] EXCEPT !.lr = rates[i], !.momentum = moms[i], !.has_momentum = TRUE]
           ELSE [gs[i] EXCEPT !.lr = rates[i]]]

Failed(gs, e) == [ok |-> FALSE, err |-> e, groups |-> gs, self |-> NoScheduler]

(* _LRScheduler.__init__ as called at the end of __init__ *)
BaseInit(c, s, gs, last_epoch) ==
    LET n == Len(gs)
        fresh == last_epoch = 0 - 1
        gs1 == IF fresh
               THEN [i \in 1..n |->
                        IF gs[i].has_initial_lr THEN gs[i]
                        ELSE [gs[i] EXCEPT !.initial_lr = gs[i].lr, !.has_initial_lr = TRUE]]
               ELSE gs
    IN IF \E i \in 1..n : ~gs1[i].has_initial_lr
       THEN Failed(gs1, InitialLrKeyError)
       ELSE LET e == IF fresh THEN 0 ELSE last_epoch
                s1 == [s EXCEPT !.base_lrs = [i \in 1..n |-> gs1[i].initial_lr],
                                !.last_epoch = e]
            IN [ok |-> TRUE, err |-> NoError, groups |-> ApplyPolicy(s1, gs1, e), self |-> s1]

(* OneCycleScheduler.__init__ *)
Construct(c, gs, last_epoch) ==
    LET n == Len(gs)
        fresh == last_epoch = 0 - 1
    IN
    IF ~c.is_optimizer THEN Failed(gs, InvalidOptimizer)
    ELSE IF c.max_lr.kind = "list" THEN Failed(gs, OperandTypeError)
    ELSE
    LET base_lrs == format_param(n, Scalar(StartLr(c)))
        gs1 == IF fresh THEN [i \in 1..n |-> [gs[i] EXCEPT !.lr = base_lrs[i]]] ELSE gs
        up == <<c.total_steps * c.pct_start[1], c.pct_start[2]>>
        down == <<c.total_steps * c.pct_start[2] - up[1], c.pct_start[2]>>
    IN
    IF ~FormatOk(n, c.max_lr)
    THEN Failed(gs1, ParameterCountMismatch("max_lr", n, Len(c.max_lr.vs)))
    ELSE IF c.cycle_momentum /\ ~c.supports_momentum THEN Failed(gs1, MomentumUnsupported)
    ELSE IF c.cycle_momentum /\ ~FormatOk(n, c.base_momentum)
    THEN Failed(gs1, ParameterCountMismatch("base_momentum", n, Len(c.base_momentum.vs)))
    ELSE
    LET base_momentums == format_param(n, c.base_momentum)
        gs2 == IF c.cycle_momentum /\ fresh
               THEN [i \in 1..n |->
                        [gs1[i] EXCEPT !.momentum = base_momentums[i], !.has_momentum = TRUE]]
               ELSE gs1
    IN
    IF \E i \in 1..n : ~gs2[i].has_momentum THEN Failed(gs2, MomentumKeyError)
    ELSE IF ~FormatOk(n, c.max_momentum)
    THEN Failed(gs2, ParameterCountMismatch("max_momentum", n, Len(c.max_momentum.vs)))
    ELSE
    LET s == [base_lrs |-> <<>>,
              max_lrs |-> format_param(n, c.max_lr),
              step_size_up |-> up,
              step_size_down |-> down,
              total_size |-> c.total_steps,
              step_ratio |-> c.pct_start,
              cycle_momentum |-> c.cycle_momentum,
              base_momentums |-> [i \in 1..n |-> gs2[i].momentum],
              max_momentums |-> format_param(n, c.max_momentum),
              last_epoch |-> 0 - 1]
    IN BaseInit(c, s, gs2, last_epoch)

-----------------------------------------------------------------------------
(* The optimizer before any scheduler is attached *)

InitialGroup(c) ==
    [lr |-> LrUnit \div 100,
     momentum |-> IF c.supports_momentum THEN (90 * MomUnit) \div 100 ELSE 0,
     has_momentum |-> c.supports_momentum,
     initial_lr |-> 0,
     has_initial_lr |-> FALSE]

SchedInit ==
    /\ cfg \in Configs
    /\ groups = [i \in 1..cfg.ngroups |-> InitialGroup(cfg)]
    /\ self = NoScheduler
    /\ pc = "new"
    /\ err = NoError
    /\ lrs = <<>>
    /\ prev_lrs = <<>>
    /\ prev_momentums = <<>>
    /\ resumes = 0

CacheIdle ==
    /\ disk = <<>>
    /\ instance = <<>>
    /\ scans = <<>>
    /\ created = 0
    /\ proc = 0
    /\ call = <<>>
    /\ outcome = <<>>

(* OneCycleScheduler(optimizer, max_lr, total_steps, ...), last_epoch = -1 *)
New ==
    /\ pc = "new"
    /\ LET r == Construct(cfg, groups, 0 - 1)
       IN /\ pc' = IF r.ok THEN "running" ELSE "failed"
          /\ err' = r.err
          /\ groups' = r.groups
          /\ self' = r.self
          /\ lrs' = IF r.ok THEN get_lr(r.self, r.self.last_epoch) ELSE <<>>
    /\ UNCHANGED <<cfg, prev_lrs, prev_momentums, resumes>>

(* scheduler.step() *)
Step ==
    /\ pc = "running"
    /\ self.last_epoch < self.total_size
    /\ LET e == self.last_epoch + 1
       IN /\ self' = [self EXCEPT !.last_epoch = e]
          /\ groups' = ApplyPolicy(self, groups, e)
          /\ lrs' = get_lr(self, e)
    /\ prev_lrs' = [i \in 1..Len(groups) |-> groups[i].lr]
    /\ prev_momentums' = [i \in 1..Len(groups) |-> groups[i].momentum]
    /\ UNCHANGED <<cfg, pc, err, resumes>>

(* the scheduler is dropped and a new one is constructed on the same     *)
(* optimizer with last_epoch = the step reached                          *)
Resume ==
    /\ pc = "running"
    /\ resumes < MaxResumes
    /\ self.last_epoch >= 1
    /\ LET r == Construct(cfg, groups, self.last_epoch)
       IN /\ pc' = IF r.ok THEN "running" ELSE "failed"
          /\ err' = r.err
          /\ groups' = r.groups
          /\ self' = r.self
          /\ lrs' = IF r.ok THEN get_lr(r.self, r.self.last_epoch) ELSE <<>>
    /\ resumes' = resumes + 1
    /\ UNCHANGED <<cfg, prev_lrs, prev_momentums>>

Init == SchedInit /\ CacheIdle

Next ==
    \/ New /\ UNCHANGED cacheVars
    \/ Step /\ UNCHANGED cacheVars
    \/ Resume /\ UNCHANGED cacheVars

Spec == Init /\ [][Next]_vars

-----------------------------------------------------------------------------
(* _ImageInfoCache / load_image_info *)

MaxProcs == 2
MaxImgId == 1

Roots == {"rootA", "rootB"}
Splits == {"training", "testing"}

(* the datasets on disk: os.path.join(root, 'object', split, 'image_2') *)
DirExists(root, split) == ~(root = "rootB" /\ split = "testing")

(* len(os.listdir(...)) *)
ImageCount(root, split) ==
    IF root = "rootA" /\ split = "testing" THEN 1 ELSE 2

(* np.array(load_image_2(root, split, i)).shape *)
ImageShape(root, split, i) ==
    <<(IF root = "rootA" THEN 370 ELSE 375) + i, IF split = "training" THEN 1224 ELSE 1242, 3>>

NoFile == [exists |-> FALSE, infos |-> <<>>]
NoInstance == [set |-> FALSE, root |-> "", split |-> "", cache_path |-> "",
               has_infos |-> FALSE, infos |-> <<>>]
NoCall == [root |-> "", split |-> "", imgid |-> 0, created |-> FALSE, scanned |-> FALSE]
NoOutcome == [kind |-> "none", value |-> <<>>]

(* os.path.join(cache_dir, f'{split}.pkl'): one file per split name *)
CachePath(root, split) == split

(* load_info: [ok, infos, scanned, file] for an instance of (root, split) *)
load_info(root, split, cache_path, d) ==
    IF d[cache_path].exists
    THEN [ok |-> TRUE, infos |-> d[cache_path].infos, scanned |-> FALSE, disk |-> d]
    ELSE IF ~DirExists(root, split)
    THEN [ok |-> FALSE, infos |-> <<>>, scanned |-> FALSE, disk |-> d]
    ELSE LET img_shapes == [k \in 1..ImageCount(root, split) |-> ImageShape(root, split, k - 1)]
         IN [ok |-> TRUE, infos |-> img_shapes, scanned |-> TRUE,
             disk |-> [d EXCEPT ![cache_path] = [exists |-> TRUE, infos |-> img_shapes]]]

(* get_instance + post_init: the instance is published before post_init runs *)
get_instance(inst, root, split, d) ==
    IF inst.set
    THEN [instance |-> inst, raised |-> FALSE, scanned |-> FALSE, disk |-> d, created |-> FALSE]
    ELSE LET path == CachePath(root, split)
             l == load_info(root, split, path, d)
         IN [instance |-> [set |-> TRUE, root |-> root, split |-> split, cache_path |-> path,
                           has_infos |-> l.ok, infos |-> l.infos],
             raised |-> ~l.ok, scanned |-> l.scanned, disk |-> l.disk, created |-> TRUE]

CacheInit ==
    /\ disk = [s \in Splits |-> NoFile]
    /\ instance = NoInstance
    /\ scans = [k \in Roots \X Splits |-> 0]
    /\ created = 0
    /\ proc = 1
    /\ call = NoCall
    /\ outcome = NoOutcome

SchedIdle ==
    /\ cfg = <<>>
    /\ groups = <<>>
    /\ self = NoScheduler
    /\ pc = "off"
    /\ err = NoError
    /\ lrs = <<>>
    /\ prev_lrs = <<>>
    /\ prev_momentums = <<>>
    /\ resumes = 0

(* load_image_info(kitti_root, split, imgid) *)
Lookup ==
    \E root \in Roots, split \in Splits, imgid \in 0..MaxImgId :
        LET g == get_instance(instance, root, split, disk)
        IN /\ instance' = g.instance
           /\ disk' = g.disk
           /\ created' = IF g.created THEN created + 1 ELSE created
           /\ scans' = IF g.scanned
                       THEN [scans EXCEPT ![<<root, split>>] = @ + 1]
                       ELSE scans
           /\ call' = [root |-> root, split |-> split, imgid |-> imgid,
                       created |-> g.created, scanned |-> g.scanned]
           /\ outcome' =
                  IF g.raised THEN [kind |-> "FileNotFoundError", value |-> <<>>]
                  ELSE IF ~g.instance.has_infos THEN [kind |-> "AttributeError", value |-> <<>>]
                  ELSE IF imgid >= Len(g.instance.infos) THEN [kind |-> "IndexError", value |-> <<>>]
                  ELSE [kind |-> "ok", value |-> g.instance.infos[imgid + 1]]
           /\ UNCHANGED proc

(* the process ends and a new one starts: the class attribute is gone,  *)
(* the files under ~/.dl_ext stay                                       *)
NewProcess ==
    /\ proc < MaxProcs
    /\ proc' = proc + 1
    /\ instance' = NoInstance
    /\ created' = 0
    /\ call' = NoCall
    /\ outcome' = NoOutcome
    /\ UNCHANGED <<disk, scans>>

CacheNext ==
    \/ Lookup /\ UNCHANGED schedVars
    \/ NewProcess /\ UNCHANGED schedVars

InitCache == SchedIdle /\ CacheInit

CacheSpec == InitCache /\ [][CacheNext]_vars

-----------------------------------------------------------------------------
(* Vocabulary of the properties *)

Running == pc = "running"
GroupIds == 1..Len(groups)
Epoch == self.last_epoch

(* the values as supplied to the constructor, one per group *)
SuppliedBaseMomentum(i) == format_param(cfg.ngroups, cfg.base_momentum)[i]
SuppliedMaxMomentum(i) == format_param(cfg.ngroups, cfg.max_momentum)[i]

(* step_index is exactly step_size_up *)
AtBoundary == Epoch * self.step_size_up[2] = self.step_size_up[1]
(* step_index - 1 and step_index both lie in [0, step_size_up] *)
StepInRampUp == Epoch >= 1 /\ Epoch * self.step_size_up[2] <= self.step_size_up[1]
(* step_index - 1 and step_index both lie in [step_size_up, total_steps] *)
StepInRampDown == Epoch >= 1 /\ (Epoch - 1) * self.step_size_up[2] >= self.step_size_up[1]

FractionIs(f, v) == f[1] = v * f[2]

(* Python's round() of a non-negative rational: half to even *)
PyRound(q) ==
    LET w == q[1] \div q[2]
        r == q[1] % q[2]
    IN IF 2 * r < q[2] THEN w
       ELSE IF 2 * r > q[2] THEN w + 1
       ELSE IF w % 2 = 0 THEN w ELSE w + 1

(* the scheduler an uninterrupted run holds: constructed fresh on the   *)
(* untouched optimizer                                                   *)
UninterruptedScheduler ==
    Construct(cfg, [i \in 1..cfg.ngroups |-> InitialGroup(cfg)], 0 - 1).self

-----------------------------------------------------------------------------
(* C1: a max_lr sequence of the wrong length makes construction fail     *)
(* with ParameterCountMismatch naming max_lr, the number of groups and   *)
(* the length given; a sequence of the right length is accepted and used *)
(* element-wise.                                                         *)
C1_MaxLrSequence ==
    (pc # "new" /\ cfg.is_optimizer /\ cfg.max_lr.kind = "list") =>
        IF Len(cfg.max_lr.vs) # cfg.ngroups
        THEN /\ pc = "failed"
             /\ err = ParameterCountMismatch("max_lr", cfg.ngroups, Len(cfg.max_lr.vs))
        ELSE /\ err.param # "max_lr"
             /\ Running => self.max_lrs = cfg.max_lr.vs

(* C2 as stated: at step_index = round(total_steps * pct_start) the      *)
(* learning rate of every group is max_lr, also when the product is not  *)
(* an integer.                                                           *)
C2_PeakAtRoundedBoundary ==
    (Running /\ Epoch = PyRound(self.step_size_up)) =>
        \A i \in GroupIds : lrs[i] = self.max_lrs[i] /\ groups[i].lr = self.max_lrs[i]

(* C2 amended: when total_steps * pct_start is a whole number k, at      *)
(* step_index = k the ramp-up branch is taken with anneal fraction 1 and *)
(* the learning rate of every group is max_lr.                           *)
C2_PeakAtExactBoundary ==
    (Running /\ AtBoundary) =>
        /\ FractionIs(AnnealFraction(self, Epoch), 1)
        /\ \A i \in GroupIds : lrs[i] = self.max_lrs[i] /\ groups[i].lr = self.max_lrs[i]

C2_Witness ==
    /\ Running
    /\ AtBoundary
    /\ Epoch = PyRound(self.step_size_up)
    /\ \A i \in GroupIds : groups[i].lr = self.max_lrs[i] /\ self.base_lrs[i] # self.max_lrs[i]

(* C3: after a resume at step k the learning rate and the momentum of    *)
(* every group are, at every later step, those of the uninterrupted run. *)
C3_ResumeEquivalence ==
    (Running /\ resumes > 0) =>
        \A i \in GroupIds :
            /\ groups[i].lr = get_lr(UninterruptedScheduler, Epoch)[i]
            /\ cfg.cycle_momentum =>
                   groups[i].momentum = get_momentums(UninterruptedScheduler, Epoch)[i]

(* C4: with cycle_momentum false, construction on a valid optimizer with *)
(* a valid max_lr succeeds whatever base_momentum/max_momentum are and   *)
(* whether or not the groups have a momentum field, and no momentum      *)
(* field is ever written.                                                *)
C4_MomentumUntouched ==
    (pc # "new" /\ ~cfg.cycle_momentum /\ cfg.is_optimizer /\ cfg.max_lr.kind = "scalar") =>
        /\ Running
        /\ \A i \in GroupIds :
               /\ groups[i].has_momentum = InitialGroup(cfg).has_momentum
               /\ groups[i].momentum = InitialGroup(cfg).momentum

(* C5: base_lr = max_lr / div_factor; the learning rate of every group   *)
(* is base_lr at step_index 0 (ramp-up, fraction 0) and at step_index    *)
(* total_steps (ramp-down, fraction 1); a fresh construction writes      *)
(* base_lr into the group's lr.                                          *)
C5_CycleEndpoints ==
    Running =>
        \A i \in GroupIds :
            LET base_lr == (self.max_lrs[i] * cfg.div_factor[2]) \div cfg.div_factor[1]
            IN /\ self.base_lrs[i] = base_lr
               /\ groups[i].initial_lr = base_lr
               /\ Epoch = 0 =>
                      /\ InRampUp(self, Epoch)
                      /\ FractionIs(AnnealFraction(self, Epoch), 0)
                      /\ lrs[i] = base_lr /\ groups[i].lr = base_lr
               /\ Epoch = self.total_size =>
                      /\ ~InRampUp(self, Epoch)
                      /\ FractionIs(AnnealFraction(self, Epoch), 1)
                      /\ lrs[i] = base_lr /\ groups[i].lr = base_lr

C5_Witness ==
    /\ Running
    /\ Epoch = self.total_size
    /\ Len(groups) = MaxGroups
    /\ \A i \in GroupIds : groups[i].lr = self.base_lrs[i] /\ self.base_lrs[i] # self.max_lrs[i]

C6_Endpoints(i) ==
    /\ Epoch = 0 => groups[i].momentum = SuppliedMaxMomentum(i)
    /\ AtBoundary => groups[i].momentum = SuppliedBaseMomentum(i)
    /\ Epoch = self.total_size => groups[i].momentum = SuppliedMaxMomentum(i)

C6_Monotone(i) ==
    /\ StepInRampUp => groups[i].momentum <= prev_momentums[i]
    /\ StepInRampDown => groups[i].momentum >= prev_momentums[i]

(* C6 as stated: with cycle_momentum, on a freshly constructed scheduler *)
(* the momentum of every group is non-increasing in the ramp-up phase,   *)
(* non-decreasing in the ramp-down phase, and is max_momentum at step 0, *)
(* the supplied base_momentum at the boundary and max_momentum at        *)
(* total_steps.                                                          *)
C6_MomentumMirror ==
    (Running /\ self.cycle_momentum /\ resumes = 0) =>
        \A i \in GroupIds : C6_Endpoints(i) /\ C6_Monotone(i)

(* C6 amended: the same, the two monotonicity statements only for groups *)
(* with base_momentum <= max_momentum.                                   *)
C6_MomentumMirrorOrdered ==
    (Running /\ self.cycle_momentum /\ resumes = 0) =>
        \A i \in GroupIds :
            /\ C6_Endpoints(i)
            /\ SuppliedBaseMomentum(i) <= SuppliedMaxMomentum(i) => C6_Monotone(i)

C6_Witness ==
    /\ Running /\ self.cycle_momentum /\ resumes = 0
    /\ StepInRampDown
    /\ Epoch = self.total_size
    /\ self.step_size_up[1] % self.step_size_up[2] = 0
    /\ \A i \in GroupIds :
           /\ SuppliedBaseMomentum(i) < SuppliedMaxMomentum(i)
           /\ groups[i].momentum > prev_momentums[i]

(* C7: with base_lr < max_lr the learning rate of a group does not       *)
(* decrease from one step to the next inside [0, step_size_up] and does  *)
(* not increase inside [step_size_up, total_steps]; the anneal fraction  *)
(* is within [0, 1] at every step_index in [0, total_steps].             *)
C7_LrMonotone ==
    Running =>
        /\ LET f == AnnealFraction(self, Epoch)
           IN f[2] > 0 /\ 0 <= f[1] /\ f[1] <= f[2]
        /\ \A i \in GroupIds :
               self.base_lrs[i] < self.max_lrs[i] =>
                   /\ StepInRampUp => groups[i].lr >= prev_lrs[i]
                   /\ StepInRampDown => groups[i].lr <= prev_lrs[i]

C7_Witness ==
    /\ Running
    /\ StepInRampDown
    /\ Epoch = self.total_size
    /\ \A i \in GroupIds :
           self.base_lrs[i] < self.max_lrs[i] /\ groups[i].lr < prev_lrs[i]

(* C8: cycle_momentum on an optimizer that does not support momentum     *)
(* makes construction fail with MomentumUnsupported whatever the other   *)
(* parameters are.                                                       *)
C8_MomentumUnsupported ==
    (pc # "new" /\ cfg.is_optimizer /\ cfg.cycle_momentum /\ ~cfg.supports_momentum) =>
        pc = "failed" /\ err = MomentumUnsupported

(* C9: the first lookup of a process, when it succeeds, returns the      *)
(* shape of image imgid under the root and split it was called with, and *)
(* a directory is scanned at most once.                                  *)
C9_ShapeOfRequestedRoot ==
    /\ \A k \in Roots \X Splits : scans[k] <= 1
    /\ (outcome.kind = "ok" /\ call.created) =>
           outcome.value = ImageShape(call.root, call.split, call.imgid)

(* C10: in one process the instance is created at most once, is that of  *)
(* the first call, and whenever it is set it holds a loaded shape list.  *)
C10_InstanceLoaded ==
    /\ created <= 1
    /\ instance.set => instance.has_infos
    /\ (instance.set /\ call.created) =>
           instance.root = call.root /\ instance.split = call.split

====
